---- MODULE Spec2Model ----
(***************************************************************************)
(* Payment button translator (assets/payment-button-translator.js).        *)
(*                                                                         *)
(* The script is a single closure running on the browser's event loop.     *)
(* The model keeps the part of the document the script reads (a forest of  *)
(* element nodes, the data-is-preorder attribute, textContent), the        *)
(* closure's variables, its pending timers and the record queues of its    *)
(* MutationObservers.  Every handler of the script is an operator from a   *)
(* state record to a state record; every action applies one handler.       *)
(* Other scripts of the page (the host platform) are the environment: they *)
(* insert, remove and re-mark nodes.                                       *)
(***************************************************************************)
EXTENDS Integers, Sequences, FiniteSets, TLC

VARIABLES
    table,            \* window.paymentButtonStrings: one of Tables
    parent,           \* DOM: node -> its parent node, Body or NoParent
    marker,           \* nodes that carry the attribute data-is-preorder
    text,             \* node -> textContent
    script,           \* "notrun", "aborted", "listening", "started"
    processedButtons, \* WeakSet processedButtons
    observedForms,    \* WeakSet observedForms
    attrObservers,    \* node -> number of attribute MutationObservers on it
    childObservers,   \* number of child-list MutationObservers on document.body
    retryCount,       \* let retryCount
    retryTimer,       \* TRUE while setTimeout(initWithRetry, 500) is pending
    debounceTimer,    \* let debounceTimer: whether the timeout it names is pending, and its batch
    timeouts,         \* the event loop's pending debounce timeouts, oldest first
    sinceBatch,       \* history: ms since handleMutations last ran, up to DEBOUNCE_DELAY
    batches,          \* history: batches handed to handleMutations since the last pass
    childRecords,     \* record queue of the child-list observer
    attrRecords,      \* forms whose attribute observers have queued records
    sweeps,           \* history: number of calls of init()
    passCalls,        \* history: node -> translateButton calls of the step just taken
    passWrites,       \* history: node -> textContent writes of the step just taken
    domOps            \* number of DOM operations the environment has done

vars == <<table, parent, marker, text, script, processedButtons, observedForms,
          attrObservers, childObservers, retryCount, retryTimer, debounceTimer,
          timeouts, sinceBatch, batches, childRecords, attrRecords, sweeps, passCalls, passWrites, domOps>>

----------------------------------------------------------------------------
(* Bounds of the model. *)

\* DOM operations the environment performs in one behaviour.
MaxDomOps == 2

\* DOM operations of the environment in the specification with fairness.
MaxLiveDomOps == 1

----------------------------------------------------------------------------
(* Program constants. *)

MAX_RETRIES == 3
DEBOUNCE_DELAY == 100

\* The translation table's entries, the platform's own label, and JavaScript's
\* undefined.
ButtonText == "Buy now"
PreorderButtonText == "Reserve now"
PlatformText == "Pay now"
Undefined == "undefined"
EmptyString == ""

----------------------------------------------------------------------------
(* The document. *)

Body == "body"
NoParent == "none"

\* b1, b2: elements with class shopify-payment-button__button--unbranded
\* pf1, pf2: <product-form>;  cf: <form class="product__form">;  f: <form>
\* d: a <div>
Nodes == {"b1", "b2", "pf1", "pf2", "cf", "f", "d"}

Kind(n) ==
    CASE n \in {"b1", "b2"} -> "button"
      [] n \in {"pf1", "pf2"} -> "product-form"
      [] n = "cf" -> "form.product__form"
      [] n = "f" -> "form"
      [] OTHER -> "div"

\* A fixed enumeration of the nodes, used where the code iterates a NodeList.
NodeOrder == <<"d", "pf1", "pf2", "cf", "f", "b1", "b2">>

\* Mutant of Matches: a selector that accepts every element.
MatchesAnyElement(n) == n \in Nodes

\* node.matches(BUTTON_SELECTOR)
Matches(n) == Kind(n) = "button"

\* node.matches('product-form')
IsProductForm(n) == Kind(n) = "product-form"

\* node.matches('form.product__form')
IsClassedForm(n) == Kind(n) = "form.product__form"

\* node.matches('form'): form.product__form is a form too
IsFormTag(n) == Kind(n) \in {"form", "form.product__form"}

\* The chain n, parent of n, ... as far as it goes (at most Cardinality(Nodes)).
RECURSIVE Chain(_, _, _)
Chain(par, n, fuel) ==
    IF n \notin Nodes \/ fuel = 0 THEN <<>>
    ELSE <<n>> \o Chain(par, par[n], fuel - 1)

Ancestors(par, n) == Chain(par, n, Cardinality(Nodes))

\* n.isConnected: the chain of parents ends at the body.
RECURSIVE ReachesBody(_, _, _)
ReachesBody(par, n, fuel) ==
    IF n = Body THEN TRUE
    ELSE IF n \notin Nodes \/ fuel = 0 THEN FALSE
    ELSE ReachesBody(par, par[n], fuel - 1)

Connected(par, n) == ReachesBody(par, n, Cardinality(Nodes) + 1)

\* m is a proper descendant of n
IsDescendant(par, m, n) ==
    /\ m # n
    /\ \E i \in 1..Len(Ancestors(par, m)) : Ancestors(par, m)[i] = n

\* A selector is given as the set of the elements it matches.
BUTTON_SELECTOR == {n \in Nodes : Matches(n)}

\* element.closest(selector): the first of n and its ancestors that the
\* selector matches, or Undefined (null).
Closest(par, n, selector) ==
    LET hits == SelectSeq(Ancestors(par, n), LAMBDA m : m \in selector)
    IN  IF hits = <<>> THEN Undefined ELSE Head(hits)

\* document.querySelectorAll(selector), as a sequence
QuerySelectorAll(par, selector) ==
    SelectSeq(NodeOrder, LAMBDA n : Connected(par, n) /\ n \in selector)

\* node.querySelectorAll(selector): the descendants of node that the selector
\* matches
NodeQuerySelectorAll(par, node, selector) ==
    SelectSeq(NodeOrder, LAMBDA n : IsDescendant(par, n, node) /\ n \in selector)

----------------------------------------------------------------------------
(* The script's state as one record, so that a handler is an operator from  *)
(* state to state.                                                          *)

Cur ==
    [table |-> table, parent |-> parent, marker |-> marker, text |-> text,
     script |-> script, processedButtons |-> processedButtons,
     observedForms |-> observedForms, attrObservers |-> attrObservers,
     childObservers |-> childObservers, retryCount |-> retryCount,
     retryTimer |-> retryTimer, debounceTimer |-> debounceTimer,
     timeouts |-> timeouts, sinceBatch |-> sinceBatch, batches |-> batches,
     childRecords |-> childRecords, attrRecords |-> attrRecords,
     sweeps |-> sweeps, passCalls |-> passCalls, passWrites |-> passWrites,
     domOps |-> domOps]

Become(s) ==
    /\ table' = s.table
    /\ parent' = s.parent
    /\ marker' = s.marker
    /\ text' = s.text
    /\ script' = s.script
    /\ processedButtons' = s.processedButtons
    /\ observedForms' = s.observedForms
    /\ attrObservers' = s.attrObservers
    /\ childObservers' = s.childObservers
    /\ retryCount' = s.retryCount
    /\ retryTimer' = s.retryTimer
    /\ debounceTimer' = s.debounceTimer
    /\ timeouts' = s.timeouts
    /\ sinceBatch' = s.sinceBatch
    /\ batches' = s.batches
    /\ childRecords' = s.childRecords
    /\ attrRecords' = s.attrRecords
    /\ sweeps' = s.sweeps
    /\ passCalls' = s.passCalls
    /\ passWrites' = s.passWrites
    /\ domOps' = s.domOps

NoWrites == [n \in Nodes |-> 0]
NoTimer == [pending |-> FALSE, mutations |-> <<>>]
NoRecords == [queued |-> FALSE, added |-> <<>>]

\* Sequencing: the state v a statement leaves, handed to the statements F
\* that follow it.
Then(v, F(_)) == CHOOSE r \in {F(x) : x \in {v}} : TRUE

\* A step starts: the logs of calls and writes are empty.
Enter(s) == [s EXCEPT !.passCalls = NoWrites, !.passWrites = NoWrites]

----------------------------------------------------------------------------
(* The translation table and the closure's constants. *)

\* window.paymentButtonStrings?.buttonText
TableButtonText(t) ==
    IF t \in {"buttonOnly", "both"} THEN ButtonText ELSE Undefined

\* window.paymentButtonStrings.preorderButtonText
TablePreorderButtonText(t) ==
    IF t \in {"both", "preorderOnly"} THEN PreorderButtonText ELSE Undefined

\* JavaScript truthiness of a string-or-undefined
Truthy(v) == v # Undefined /\ v # EmptyString

translatedText(s) == TableButtonText(s.table)
preorderText(s) == TablePreorderButtonText(s.table)

\* The textContent setter: undefined and null are written as the empty string.
TextContentSetter(v) == IF v = Undefined THEN EmptyString ELSE v

----------------------------------------------------------------------------
(* translateButton *)

\* productForm with the classed form looked up before the product-form.
productFormClassedFirst(s, button) ==
    LET a == Closest(s.parent, button, {n \in Nodes : IsClassedForm(n)})
        b == Closest(s.parent, button, {n \in Nodes : IsProductForm(n)})
        c == Closest(s.parent, button,
                     {n \in Nodes : IsFormTag(n) /\ n \in s.marker})
        g == QuerySelectorAll(s.parent,
                 {n \in Nodes : IsProductForm(n) /\ n \in s.marker})
    IN  IF a # Undefined THEN a
        ELSE IF b # Undefined THEN b
        ELSE IF c # Undefined THEN c
        ELSE IF g # <<>> THEN Head(g)
        ELSE Undefined

\* const productForm = button.closest('product-form') || ... (the form whose
\* attribute decides), or Undefined
productForm(s, button) ==
    LET a == Closest(s.parent, button, {n \in Nodes : IsProductForm(n)})
        b == Closest(s.parent, button, {n \in Nodes : IsClassedForm(n)})
        c == Closest(s.parent, button,
                     {n \in Nodes : IsFormTag(n) /\ n \in s.marker})
        g == QuerySelectorAll(s.parent,
                     {n \in Nodes : IsProductForm(n) /\ n \in s.marker})
    IN  IF a # Undefined THEN a
        ELSE IF b # Undefined THEN b
        ELSE IF c # Undefined THEN c
        ELSE IF g # <<>> THEN Head(g)
        ELSE Undefined

\* const isPreorder = productForm?.hasAttribute('data-is-preorder')
isPreorder(s, button) ==
    LET form == productForm(s, button)
    IN  form # Undefined /\ form \in s.marker

\* Mutant of translateButton: the Processed-Set is never consulted.
translateButtonNoSkip(s0, button, forceUpdate) ==
    LET s == [s0 EXCEPT !.passCalls[button] = @ + 1]
    IN
    IF ~Matches(button) THEN s
    ELSE [s EXCEPT
            !.text[button] = TextContentSetter(
                IF isPreorder(s, button) THEN preorderText(s) ELSE translatedText(s)),
            !.passWrites[button] = @ + 1,
            !.processedButtons = @ \cup {button}]

translateButton(s0, button, forceUpdate) ==
    LET s == [s0 EXCEPT !.passCalls[button] = @ + 1]
    IN
    IF ~forceUpdate /\ button \in s.processedButtons THEN s
    ELSE IF ~Matches(button) THEN s
    ELSE [s EXCEPT
            !.text[button] = TextContentSetter(
                IF isPreorder(s, button) THEN preorderText(s) ELSE translatedText(s)),
            !.passWrites[button] = @ + 1,
            !.processedButtons = @ \cup {button}]

\* nodeList.forEach(translateButton) / forEach(b => translateButton(b, true))
RECURSIVE TranslateEach(_, _, _)
TranslateEach(s, buttons, forceUpdate) ==
    IF buttons = <<>> THEN s
    ELSE Then(translateButton(s, Head(buttons), forceUpdate),
              LAMBDA t : TranslateEach(t, Tail(buttons), forceUpdate))

----------------------------------------------------------------------------
(* The observers and the handlers. *)

\* observeFormAttributes without the observedForms.has(form) check.
observeFormAttributesNoCheck(s, form) ==
    [s EXCEPT !.attrObservers[form] = @ + 1,
              !.observedForms = @ \cup {form}]

\* observeFormAttributes(form): one more attribute observer on form, unless
\* the form is in observedForms.
observeFormAttributes(s, form) ==
    IF form \in s.observedForms THEN s
    ELSE [s EXCEPT !.attrObservers[form] = @ + 1,
                   !.observedForms = @ \cup {form}]

RECURSIVE ObserveEach(_, _)
ObserveEach(s, forms) ==
    IF forms = <<>> THEN s
    ELSE Then(observeFormAttributes(s, Head(forms)),
              LAMBDA t : ObserveEach(t, Tail(forms)))

\* The callback of an attribute observer: every matching button of the
\* document is translated again, forced.
attrObserverCallback(s) ==
    TranslateEach(s, QuerySelectorAll(s.parent, BUTTON_SELECTOR), TRUE)

\* The arrow function handleMutations hands to setTimeout, for one added node.
ProcessAddedNode(s, node) ==
    Then(IF Matches(node) THEN translateButton(s, node, FALSE) ELSE s,
    LAMBDA s1 :
    Then(TranslateEach(s1, NodeQuerySelectorAll(s1.parent, node, BUTTON_SELECTOR), FALSE),
    LAMBDA s2 :
    ObserveEach(s2, NodeQuerySelectorAll(s2.parent, node,
                    {n \in Nodes : IsProductForm(n) \/ IsClassedForm(n)}))))

\* mutations.forEach(mutation => mutation.addedNodes.forEach(...)): added is
\* the added element nodes of the batch, in order.
RECURSIVE debounceCallback(_, _)
debounceCallback(s, added) ==
    IF added = <<>> THEN s
    ELSE Then(ProcessAddedNode(s, Head(added)),
              LAMBDA t : debounceCallback(t, Tail(added)))

\* clearTimeout(debounceTimer): the timeout the handle names is the newest
\* one; a handle whose timeout has run or was cleared names nothing.
clearTimeout(s) ==
    IF s.debounceTimer.pending
    THEN [s EXCEPT !.timeouts = SubSeq(@, 1, Len(@) - 1),
                   !.debounceTimer = NoTimer]
    ELSE s

\* debounceTimer = setTimeout(() => {...}, DEBOUNCE_DELAY): the closure keeps
\* the batch of this call.
setTimeout(s, added) ==
    [s EXCEPT !.timeouts = Append(@, [mutations |-> added,
                                      remaining |-> DEBOUNCE_DELAY]),
              !.debounceTimer = [pending |-> TRUE, mutations |-> added]]

\* handleMutations without its clearTimeout.
handleMutationsNoClear(s, added) ==
    [setTimeout(s, added) EXCEPT !.sinceBatch = 0, !.batches = @ + 1]

\* handleMutations(mutations): clearTimeout, then setTimeout of a closure over
\* this batch.
handleMutations(s, added) ==
    [setTimeout(clearTimeout(s), added) EXCEPT !.sinceBatch = 0,
                                               !.batches = @ + 1]

\* init()
init(s) ==
    Then(TranslateEach(s, QuerySelectorAll(s.parent, BUTTON_SELECTOR), FALSE),
         LAMBDA t : [t EXCEPT !.sweeps = @ + 1])

\* setupObserver()
setupObserver(s) == [s EXCEPT !.childObservers = @ + 1]

\* setupAttributeObserver()
setupAttributeObserver(s) ==
    ObserveEach(s, QuerySelectorAll(s.parent,
        {n \in Nodes : \/ IsProductForm(n)
                       \/ (IsFormTag(n) /\ n \in s.marker)
                       \/ IsClassedForm(n)}))

\* Mutant of initWithRetry: the retry budget is compared with <=.
initWithRetryOffByOne(s) ==
    Then(init(s), LAMBDA s1 :
    LET buttonsFound == Len(QuerySelectorAll(s1.parent, BUTTON_SELECTOR))
    IN  IF buttonsFound = 0 /\ s1.retryCount <= MAX_RETRIES
        THEN [s1 EXCEPT !.retryCount = @ + 1, !.retryTimer = TRUE]
        ELSE Then(setupObserver(s1), LAMBDA s2 : setupAttributeObserver(s2)))

\* Mutant of initWithRetry: retryCount is never incremented.
initWithRetryNoIncrement(s) ==
    Then(init(s), LAMBDA s1 :
    LET buttonsFound == Len(QuerySelectorAll(s1.parent, BUTTON_SELECTOR))
    IN  IF buttonsFound = 0 /\ s1.retryCount < MAX_RETRIES
        THEN [s1 EXCEPT !.retryTimer = TRUE]
        ELSE Then(setupObserver(s1), LAMBDA s2 : setupAttributeObserver(s2)))

\* Mutant of initWithRetry: the observers are installed on every call, not
\* only in the else branch.
initWithRetryAlwaysInstall(s) ==
    Then(init(s), LAMBDA s1 :
    LET buttonsFound == Len(QuerySelectorAll(s1.parent, BUTTON_SELECTOR))
    IN  Then(IF buttonsFound = 0 /\ s1.retryCount < MAX_RETRIES
             THEN [s1 EXCEPT !.retryCount = @ + 1, !.retryTimer = TRUE]
             ELSE s1,
        LAMBDA s2 :
        Then(setupObserver(s2), LAMBDA s3 : setupAttributeObserver(s3))))

\* initWithRetry()
initWithRetry(s) ==
    Then(init(s), LAMBDA s1 :
    LET buttonsFound == Len(QuerySelectorAll(s1.parent, BUTTON_SELECTOR))
    IN  IF buttonsFound = 0 /\ s1.retryCount < MAX_RETRIES
        THEN [s1 EXCEPT !.retryCount = @ + 1, !.retryTimer = TRUE]
        ELSE Then(setupObserver(s1), LAMBDA s2 : setupAttributeObserver(s2)))

\* Mutant of mainScript: no early exit.
mainScriptNoEarlyExit(s, readyState) ==
    IF readyState = "loading" THEN [s EXCEPT !.script = "listening"]
    ELSE Then([s EXCEPT !.script = "started"], LAMBDA t : initWithRetry(t))

\* The body of the script: the early exit, then initWithRetry now or at
\* DOMContentLoaded, by document.readyState.
mainScript(s, readyState) ==
    IF ~Truthy(TableButtonText(s.table)) THEN [s EXCEPT !.script = "aborted"]
    ELSE IF readyState = "loading" THEN [s EXCEPT !.script = "listening"]
    ELSE Then([s EXCEPT !.script = "started"], LAMBDA t : initWithRetry(t))

\* The microtask that notifies the mutation observers: the child-list
\* observer (created first) gets its batch, then each attribute observer with
\* queued records runs its callback.
RECURSIVE NotifyAttr(_, _)
NotifyAttr(s, forms) ==
    IF forms = <<>> THEN s
    ELSE Then(attrObserverCallback(s), LAMBDA t : NotifyAttr(t, Tail(forms)))

notifyMutationObservers(s) ==
    Then(IF s.childRecords.queued
         THEN handleMutations(s, s.childRecords.added) ELSE s,
    LAMBDA s1 :
    Then(NotifyAttr(s1, SelectSeq(NodeOrder, LAMBDA n : n \in s.attrRecords)),
    LAMBDA s2 :
    [s2 EXCEPT !.childRecords = NoRecords, !.attrRecords = {}]))

----------------------------------------------------------------------------
(* The environment's DOM operations, with the records they queue. *)

FormNodes == {n \in Nodes : IsProductForm(n) \/ IsFormTag(n)}

\* Where the environment puts a node: the div under the body, a form under
\* the body or the div, a button under the body, the div or a form.  The
\* classed form stays out of the document here.
AllowedParents(n) ==
    CASE Kind(n) = "div" -> {Body}
      [] Kind(n) = "button" -> {Body, "pf1", "pf2", "f", "d"}
      [] n = "cf" -> {}
      [] OTHER -> {Body, "d"}

\* The forms whose marker the environment changes.
ToggledForms == FormNodes \ {"cf"}

\* InDocument for an observer of document.body without subtree: true.
InDocumentBodyOnly(par, p) == p = Body

InDocument(par, p) == p = Body \/ Connected(par, p)

\* p.appendChild(n): n leaves its old parent, if it has one, and becomes a
\* child of p.  The child-list observer gets a record for the removal (when
\* the old place was in the document) and one for the addition (when the new
\* place is).
appendChild(s, n, p) ==
    LET installed == s.childObservers > 0
        removed == installed /\ Connected(s.parent, n)
        added == installed /\ InDocument(s.parent, p)
    IN  [s EXCEPT !.parent[n] = p,
                  !.domOps = @ + 1,
                  !.childRecords =
                      [queued |-> @.queued \/ removed \/ added,
                       added |-> IF added THEN Append(@.added, n) ELSE @.added]]

\* n.remove()
removeNode(s, n) ==
    LET observed == s.childObservers > 0 /\ Connected(s.parent, n)
    IN  [s EXCEPT !.parent[n] = NoParent,
                  !.domOps = @ + 1,
                  !.childRecords =
                      IF observed THEN [@ EXCEPT !.queued = TRUE] ELSE @]

\* form.toggleAttribute('data-is-preorder')
toggleMarker(s, form) ==
    [s EXCEPT !.marker = IF form \in @ THEN @ \ {form} ELSE @ \cup {form},
              !.domOps = @ + 1,
              !.attrRecords =
                  IF s.attrObservers[form] > 0 THEN @ \cup {form} ELSE @]

----------------------------------------------------------------------------
(* Initial states and actions. *)

\* window.paymentButtonStrings: undefined ("none"), or an object with only
\* preorderButtonText, only buttonText, or both entries.
Tables == {"none", "preorderOnly", "buttonOnly", "both"}

\* Documents the script may find: nothing yet, or a button inside a form.
EmptyDocument == [n \in Nodes |-> NoParent]
InitialDocuments ==
    { EmptyDocument,
      [EmptyDocument EXCEPT !["pf1"] = Body, !["b1"] = "pf1"],
      [EmptyDocument EXCEPT !["f"] = Body, !["b1"] = "f"],
      [EmptyDocument EXCEPT !["pf1"] = Body, !["b1"] = "pf1",
                            !["pf2"] = Body, !["b2"] = "pf2"] }

Init ==
    /\ table \in Tables
    /\ parent \in InitialDocuments
    /\ marker \in {{}, {"pf1"}, {"f"}}
    /\ text = [n \in Nodes |-> PlatformText]
    /\ script = "notrun"
    /\ processedButtons = {}
    /\ observedForms = {}
    /\ attrObservers = [n \in Nodes |-> 0]
    /\ childObservers = 0
    /\ retryCount = 0
    /\ retryTimer = FALSE
    /\ debounceTimer = NoTimer
    /\ timeouts = <<>>
    /\ sinceBatch = DEBOUNCE_DELAY
    /\ batches = 0
    /\ childRecords = NoRecords
    /\ attrRecords = {}
    /\ sweeps = 0
    /\ passCalls = NoWrites
    /\ passWrites = NoWrites
    /\ domOps = 0

\* A task may start only at a microtask checkpoint: no observer has records.
MicrotasksPending == childRecords.queued \/ attrRecords # {}

RunScript ==
    /\ script = "notrun"
    /\ \E readyState \in {"loading", "complete"} :
         \E cur \in {Enter(Cur)} :
           \E next \in {mainScript(cur, readyState)} : Become(next)

DOMContentLoaded ==
    /\ script = "listening"
    /\ \E cur \in {[Enter(Cur) EXCEPT !.script = "started"]} :
         \E next \in {initWithRetry(cur)} : Become(next)

RetryTimerFire ==
    /\ retryTimer
    /\ ~MicrotasksPending
    /\ \E cur \in {[Enter(Cur) EXCEPT !.retryTimer = FALSE]} :
         \E next \in {initWithRetry(cur)} : Become(next)

NotifyMutationObservers ==
    /\ MicrotasksPending
    /\ \E cur \in {Enter(Cur)} :
         \E next \in {notifyMutationObservers(cur)} : Become(next)

\* A timeout that is due runs: it leaves the event loop's list, and the
\* handle names nothing any more if it named this timeout.
DebounceTimerFire ==
    /\ ~MicrotasksPending
    /\ \E i \in 1..Len(timeouts) :
         /\ timeouts[i].remaining = 0
         /\ \E cur \in {[Enter(Cur) EXCEPT
                            !.timeouts = SubSeq(@, 1, i - 1)
                                         \o SubSeq(@, i + 1, Len(@)),
                            !.debounceTimer =
                                IF i = Len(timeouts) THEN NoTimer ELSE @,
                            !.batches = 0]} :
              \E next \in {debounceCallback(cur, timeouts[i].mutations)} :
                Become(next)

\* Time passes, one debounce delay at a time.  The observers' microtask
\* runs at the end of the task that changed the document, before the clock
\* moves on.
elapse(s, ms) ==
    [s EXCEPT !.timeouts = [i \in 1..Len(@) |->
                              [@[i] EXCEPT !.remaining =
                                  IF @ > ms THEN @ - ms ELSE 0]],
              !.sinceBatch = IF @ + ms < DEBOUNCE_DELAY THEN @ + ms
                             ELSE DEBOUNCE_DELAY]

TimePasses ==
    /\ ~MicrotasksPending
    /\ \/ sinceBatch < DEBOUNCE_DELAY
       \/ \E i \in 1..Len(timeouts) : timeouts[i].remaining > 0
    /\ \E cur \in {Enter(Cur)} :
         \E next \in {elapse(cur, DEBOUNCE_DELAY)} : Become(next)

EnvAppendChild ==
    /\ domOps < MaxDomOps
    /\ \E n \in Nodes : \E p \in AllowedParents(n) :
         /\ p # n
         /\ p = Body \/ ~IsDescendant(parent, p, n)
         /\ \E cur \in {Enter(Cur)} :
              \E next \in {appendChild(cur, n, p)} : Become(next)

EnvRemove ==
    /\ domOps < MaxDomOps
    /\ \E n \in Nodes :
         /\ parent[n] # NoParent
         /\ \E cur \in {Enter(Cur)} :
              \E next \in {removeNode(cur, n)} : Become(next)

EnvToggleMarker ==
    /\ domOps < MaxDomOps
    /\ \E form \in ToggledForms :
         \E cur \in {Enter(Cur)} :
           \E next \in {toggleMarker(cur, form)} : Become(next)

ScriptStep ==
    \/ RunScript
    \/ DOMContentLoaded
    \/ RetryTimerFire
    \/ NotifyMutationObservers
    \/ DebounceTimerFire

EnvStep ==
    \/ EnvAppendChild
    \/ EnvRemove
    \/ EnvToggleMarker

Next == ScriptStep \/ EnvStep \/ TimePasses

Spec == Init /\ [][Next]_vars

\* The event loop runs a task or microtask of the script whenever one is
\* ready: the script itself, DOMContentLoaded, a timer that is due, the
\* observers' microtask.
Fairness == WF_vars(ScriptStep)

\* The specification of the liveness claims: the same script, an
\* environment that does MaxLiveDomOps operations, and the fair event loop.
LiveEnvStep == domOps < MaxLiveDomOps /\ EnvStep

LiveNext == ScriptStep \/ LiveEnvStep \/ TimePasses

LiveSpec == Init /\ [][LiveNext]_vars /\ Fairness

----------------------------------------------------------------------------
(* The specification of the context lookup: the script's start-up on every  *)
(* arrangement of one button and the forms around it, with every marking.   *)

LookupParents(n) ==
    CASE n = "b1" -> {Body, "pf1", "cf", "f"}
      [] n = "pf1" -> {Body, NoParent, "cf", "f"}
      [] n = "cf" -> {Body, NoParent, "pf1", "f"}
      [] n = "f" -> {Body, NoParent, "pf1", "cf"}
      [] n = "pf2" -> {Body, NoParent}
      [] OTHER -> {NoParent}

\* The forests: no node is its own ancestor.
LookupDocuments ==
    {par \in {[n \in Nodes |-> CASE n = "b1" -> pb
                                 [] n = "pf1" -> ppf
                                 [] n = "cf" -> pcf
                                 [] n = "f" -> pf
                                 [] n = "pf2" -> ppf2
                                 [] OTHER -> NoParent] :
                 pb \in LookupParents("b1"), ppf \in LookupParents("pf1"),
                 pcf \in LookupParents("cf"), pf \in LookupParents("f"),
                 ppf2 \in LookupParents("pf2")} :
        \A n \in Nodes : Len(Ancestors(par, n)) < Cardinality(Nodes)}

LookupInit ==
    /\ table \in {"buttonOnly", "both"}
    /\ parent \in LookupDocuments
    /\ marker \in SUBSET FormNodes
    /\ text = [n \in Nodes |-> PlatformText]
    /\ script = "notrun"
    /\ processedButtons = {}
    /\ observedForms = {}
    /\ attrObservers = [n \in Nodes |-> 0]
    /\ childObservers = 0
    /\ retryCount = 0
    /\ retryTimer = FALSE
    /\ debounceTimer = NoTimer
    /\ timeouts = <<>>
    /\ sinceBatch = DEBOUNCE_DELAY
    /\ batches = 0
    /\ childRecords = NoRecords
    /\ attrRecords = {}
    /\ sweeps = 0
    /\ passCalls = NoWrites
    /\ passWrites = NoWrites
    /\ domOps = 0

LookupNext == RunScript \/ DOMContentLoaded \/ RetryTimerFire

LookupSpec == LookupInit /\ [][LookupNext]_vars

----------------------------------------------------------------------------
(* The phases of the script, read off its state. *)

Phase ==
    IF childObservers > 0 THEN "Observing"
    ELSE IF script = "started" THEN "Sweeping"
    ELSE IF script = "aborted" THEN "Aborted"
    ELSE "Uninitialized"

\* Nothing of the script is waiting to run.
Quiescent == ~MicrotasksPending /\ ~debounceTimer.pending /\ ~retryTimer

Buttons == {n \in Nodes : Kind(n) = "button"}
DocumentButtons == {b \in Buttons : Connected(parent, b)}

\* The table entry a button should show in a document: the pre-order entry
\* when the form its lookup resolves to carries the marker.
ExpectedEntry(s, b) ==
    IF isPreorder(s, b) THEN TablePreorderButtonText(s.table)
    ELSE TableButtonText(s.table)

\* form encloses a button of the document
GovernsButton(form) ==
    \E b \in DocumentButtons : IsDescendant(parent, b, form)

----------------------------------------------------------------------------
(* Claims. *)

\* C1: while Observing, once every pending timer and observer callback has
\* run, every matching button of the document shows the label of its current
\* pre-order context.  Stated with the label as textContent keeps it (an
\* absent entry reads as the empty string).
C1_SettledLabels ==
    (Phase = "Observing" /\ Quiescent) =>
        \A b \in DocumentButtons :
            text[b] = TextContentSetter(ExpectedEntry(Cur, b))

\* C2: while Observing, once every pending timer and observer callback has
\* run, every matching button of the document has been translated, however
\* many mutation batches were delivered before the debounce timer fired.
C2_LateInjectionTranslated ==
    (Phase = "Observing" /\ Quiescent) =>
        \A b \in DocumentButtons : b \in processedButtons

\* C3: while Observing, a step that adds or removes data-is-preorder on a
\* form enclosing a button of the document queues a record for an attribute
\* observer of that form, so that the forced pass runs.
C3_MarkerChangeForcesPass ==
    [][ (Phase = "Observing" /\ marker' # marker) =>
          \A form \in (marker' \ marker) \cup (marker \ marker') :
              GovernsButton(form) => form \in attrRecords' ]_vars

\* C4: right after a sweep, every matching button of the document shows
\* preorderButtonText if its form carries the marker and buttonText
\* otherwise, and is in the Processed-Set.
C4_SweepLabels ==
    [][ sweeps' # sweeps =>
          \A b \in DocumentButtons :
              /\ text'[b] = ExpectedEntry(Cur, b)
              /\ b \in processedButtons' ]_vars

\* C5: init() runs at most 4 times (1 + MAX_RETRIES), retryCount stays within
\* 0..3, and in Observing no retry timer is pending.
C5_RetryBound ==
    /\ sweeps <= MAX_RETRIES + 1
    /\ retryCount \in 0..MAX_RETRIES
    /\ (Phase = "Observing" => ~retryTimer)

\* C5 witness: no button ever appeared, the budget is spent after 4 sweeps,
\* and the script observes.
C5_Witness ==
    /\ sweeps = MAX_RETRIES + 1
    /\ retryCount = MAX_RETRIES
    /\ Phase = "Observing"
    /\ ~retryTimer
    /\ \A b \in Buttons : text[b] = PlatformText

C7_MissingTable ==
    table = "none" =>
        /\ \A n \in Nodes : text[n] = PlatformText /\ attrObservers[n] = 0
        /\ childObservers = 0
        /\ ~retryTimer
        /\ ~debounceTimer.pending
        /\ sweeps = 0

\* C7 witness: the script has exited early, and the document has since got a
\* button under a marked form.
C7_Witness ==
    /\ table = "none"
    /\ script = "aborted"
    /\ domOps > 0
    /\ \E b \in DocumentButtons : isPreorder(Cur, b)

\* C8: with a translation table, once initWithRetry is due the script
\* reaches Observing, after at most 3 retry timers, with exactly one
\* child-list observer installed.
C8_RetryLoopTerminates ==
    (Truthy(TableButtonText(table)) /\ script \in {"listening", "started"})
        ~> (Phase = "Observing" /\ childObservers = 1 /\ ~retryTimer
            /\ sweeps <= MAX_RETRIES + 1)

\* C8 witness: Observing was reached with the budget spent and no button ever
\* found, and a button injected afterwards has been translated by a debounced
\* pass.
C8_Witness ==
    /\ Phase = "Observing"
    /\ childObservers = 1
    /\ retryCount = MAX_RETRIES
    /\ \E b \in DocumentButtons :
           /\ passWrites[b] = 1
           /\ sweeps = MAX_RETRIES + 1
           /\ domOps > 0
           /\ b \in processedButtons

PhaseRank(p) ==
    CASE p = "Observing" -> 2
      [] p = "Sweeping" -> 1
      [] OTHER -> 0

\* C10: the phase never moves backwards; the child-list observer is installed
\* at most once, attribute observers exist only in Observing, no observer is
\* installed while a retry timer is pending; from Observing the script never
\* sweeps again and schedules no retry timer.
C10_Phases ==
    [][ /\ PhaseRank(Phase') >= PhaseRank(Phase)
        /\ childObservers' <= 1
        /\ (\E n \in Nodes : attrObservers'[n] > 0) => Phase' = "Observing"
        /\ retryTimer' => (childObservers' = 0 /\ Phase' = "Sweeping")
        /\ Phase = "Observing" =>
               (Phase' = "Observing" /\ sweeps' = sweeps /\ ~retryTimer') ]_vars

\* C10 witness: Observing was reached through Sweeping, and the document
\* changed afterwards.
C10_Witness ==
    /\ Phase = "Observing"
    /\ retryCount > 0
    /\ debounceTimer.pending
    /\ observedForms # {}

\* C11: at most one debounced pass is pending, and the handle names it; a
\* batch handed to handleMutations leaves exactly one pending pass, newly
\* scheduled with the full delay and holding that batch; so a burst of
\* batches has one pending pass, and when the pass runs DEBOUNCE_DELAY ms have
\* passed since the last batch and no pass stays pending.
C11_Debounce ==
    [][ /\ Len(timeouts') <= 1
        /\ debounceTimer'.pending <=> timeouts' # <<>>
        /\ batches' > 0 <=> Len(timeouts') = 1
        /\ (childRecords.queued /\ ~childRecords'.queued) =>
               /\ timeouts' = << [mutations |-> childRecords.added,
                                  remaining |-> DEBOUNCE_DELAY] >>
               /\ batches' = batches + 1
        /\ (batches > 0 /\ batches' = 0) =>
               /\ sinceBatch = DEBOUNCE_DELAY
               /\ timeouts' = <<>> ]_vars

\* C11 witness: a burst of two batches, the second delivered before the
\* first one's pass ran, has one pending pass, and that pass is due.
C11_Witness ==
    /\ batches = 2
    /\ Len(timeouts) = 1
    /\ timeouts[1].remaining = 0
    /\ sinceBatch = DEBOUNCE_DELAY
    /\ debounceTimer.pending

\* C12: once the script observes and every batch has been processed, each
\* form-like element (product-form or form.product__form) of the document,
\* those inserted while observing included, has an attribute observer.
C12_InjectedFormsObserved ==
    (Phase = "Observing" /\ Quiescent) =>
        \A form \in Nodes :
            (Connected(parent, form)
             /\ (IsProductForm(form) \/ IsClassedForm(form))) =>
                attrObservers[form] > 0

\* The ancestors of button b among the elements of S, and the nearest of them.
AncestorsIn(b, S) == {a \in S : IsDescendant(parent, b, a)}

NearestIn(b, S) ==
    {a \in AncestorsIn(b, S) :
        \A c \in AncestorsIn(b, S) \ {a} : IsDescendant(parent, a, c)}

\* The elements that decide the context of button b: the first that exists
\* of the nearest product-form ancestor, the nearest form.product__form
\* ancestor, the nearest form[data-is-preorder] ancestor, the marked elements
\* of the document among those the fallback query looks for.
ContextOf(b, fallback) ==
    LET pf == NearestIn(b, {n \in Nodes : Kind(n) = "product-form"})
        cf == NearestIn(b, {n \in Nodes : Kind(n) = "form.product__form"})
        mf == NearestIn(b, {n \in marker :
                               Kind(n) \in {"form", "form.product__form"}})
    IN  IF pf # {} THEN pf
        ELSE IF cf # {} THEN cf
        ELSE IF mf # {} THEN mf
        ELSE {n \in fallback \cap marker : Connected(parent, n)}

\* The label a written button has when the context is decided that way.
LabelBy(b, fallback) ==
    TextContentSetter(IF ContextOf(b, fallback) \cap marker # {}
                      THEN TablePreorderButtonText(table)
                      ELSE TableButtonText(table))

\* C13: a button the start-up sweep has written carries the label of the
\* context decided by marker presence on the first that exists of: nearest
\* product-form ancestor, nearest form.product__form ancestor, nearest
\* form[data-is-preorder] ancestor, any marked product-form of the document;
\* with none of them the context is not pre-order.
C13_LookupOrder ==
    \A b \in Buttons \cap processedButtons :
        text[b] = LabelBy(b, {n \in Nodes : Kind(n) = "product-form"})

\* C13 as stated: the last resort is any marked form-like element (product-form
\* or form.product__form) of the document.
C13_LookupOrderAnyFormLike ==
    \A b \in Buttons \cap processedButtons :
        text[b] = LabelBy(b, {n \in Nodes : Kind(n) \in {"product-form",
                                                         "form.product__form"}})

\* C13 witness: a written button inside a marked plain form inside an
\* unmarked form.product__form, with a marked product-form elsewhere in the
\* document: the unmarked classed form decides, and the button is not
\* pre-order.
C13_Witness ==
    /\ "b1" \in processedButtons
    /\ parent["b1"] = "f" /\ parent["f"] = "cf" /\ parent["cf"] = Body
    /\ parent["pf2"] = Body
    /\ marker = {"f", "pf2"}
    /\ text["b1"] = ButtonText

\* C14: a form never has more than one attribute observer, however often it
\* is passed to observeFormAttributes, and it is in the Observed-Form-Set
\* exactly when it has one.
C14_SingleAttributeObserver ==
    \A n \in Nodes :
        /\ attrObservers[n] <= 1
        /\ n \in observedForms <=> attrObservers[n] = 1

\* C14 witness: a product-form observed at set-up was then moved into a
\* newly inserted div; the debounced pass has just gone through the div's
\* subtree (it called translate on the form's processed button), passing the
\* form to observeFormAttributes a second time.
C14_Witness ==
    /\ domOps = 2
    /\ parent["b1"] = "pf1" /\ parent["pf1"] = "d" /\ parent["d"] = Body
    /\ passCalls["b1"] > 0
    /\ passWrites["b1"] = 0
    /\ timeouts = <<>>
    /\ "pf1" \in observedForms
    /\ attrObservers["pf1"] = 1

\* The product-form enclosing button b, or Undefined.
EnclosingProductForm(b) ==
    Closest(parent, b, {n \in Nodes : IsProductForm(n)})

\* C15: when attribute records are delivered (a forced pass for a marker
\* change on some form A), every button of the document enclosed in a
\* product-form B other than A shows preorderButtonText if B carries the
\* marker and buttonText if it does not.
C15_FormsIndependent ==
    [][ (attrRecords # {} /\ attrRecords' = {}) =>
          \A b \in DocumentButtons :
              (/\ EnclosingProductForm(b) # Undefined
               /\ \E A \in attrRecords : A # EnclosingProductForm(b)) =>
                  text'[b] = IF EnclosingProductForm(b) \in marker
                             THEN PreorderButtonText ELSE ButtonText ]_vars

\* C16: every text the script has written on a button is an entry of the
\* translation table, buttonText or preorderButtonText; none is undefined or
\* empty.
C16_DefinedLabels ==
    \A b \in Buttons \cap processedButtons :
        text[b] \in {ButtonText, PreorderButtonText}

\* Node n of a record covers button b: it is b or an ancestor of b.
Covers(par, n, b) == n = b \/ IsDescendant(par, b, n)

\* C17: the step that installs the child-list observer is a step that
\* sweeps, and leaves every button of the document in the Processed-Set; once
\* the observer is installed, a step that brings a button into the document
\* queues a record whose added node covers the button, queued records stay
\* queued until they are delivered, and the delivery hands them all to
\* handleMutations as one batch.
C17_NoGap ==
    [][ /\ (childObservers = 0 /\ childObservers' > 0) =>
               /\ sweeps' = sweeps + 1
               /\ \A b \in Buttons :
                      Connected(parent', b) => b \in processedButtons'
        /\ childObservers > 0 =>
               \A b \in Buttons :
                   (~Connected(parent, b) /\ Connected(parent', b)) =>
                       /\ childRecords'.queued
                       /\ \E i \in 1..Len(childRecords'.added) :
                              Covers(parent', childRecords'.added[i], b)
        /\ (childRecords.queued /\ childRecords'.queued) =>
               /\ Len(childRecords'.added) >= Len(childRecords.added)
               /\ SubSeq(childRecords'.added, 1, Len(childRecords.added))
                      = childRecords.added
        /\ (childRecords.queued /\ ~childRecords'.queued) =>
               /\ debounceTimer'.pending
               /\ debounceTimer'.mutations = childRecords.added ]_vars

\* C17 witness: the observer was installed by a step that swept a button, a
\* second button came into the document afterwards, and the batch covering it
\* has been handed to handleMutations and waits for its pass.
C17_Witness ==
    /\ childObservers = 1
    /\ \E b \in DocumentButtons : b \in processedButtons
    /\ debounceTimer.pending
    /\ \E b \in DocumentButtons \ processedButtons :
           \E i \in 1..Len(debounceTimer.mutations) :
               Covers(parent, debounceTimer.mutations[i], b)

====
